---------------------------- MODULE Spec2Model ----------------------------
(***************************************************************************)
(* A model of the LRC <-> SRT subtitle converters of this repository       *)
(* (src/LrcToSrt.py, src/SrtToLrc_2.0.py), of the lyric cleanup pass       *)
(* (src/lrc_processor.py) and of the font weight extractor                 *)
(* (src/FontsSeparate/FontWeightExtractor.py).                             *)
(*                                                                         *)
(* Text is modelled as a sequence of one-character strings, so that the    *)
(* regular expressions, int() and the f-string formats of the Python code  *)
(* are computed on characters as the code computes them.                   *)
(***************************************************************************)
EXTENDS Integers, Sequences, FiniteSets, TLC

VARIABLES
    tcIn,       \* time-code scenario: the string handed to a converter
    tcMid,      \* result of convert_lrc_time_to_srt(tcIn)
    tcOut,      \* result of convert_srt_time_to_lrc
    tcPc,       \* "start" | "expanded" | "compact" | "roundtrip"
    fDir,       \* file scenario: "lrc2srt" | "srt2lrc" ("none" in other scenarios)
    fSrc,       \* the source file's text
    fIo,        \* <<rd, wr>>: how reading the source and writing the destination went
    fRes,       \* what the file converter returned, wrote and printed
    fPc,        \* "start" | "done"
    wConv,      \* batch scenario: which script runs, "lrc2srt" | "srt2lrc"
    wMode,      \* "argv0" | "argv1" | "argv2" | "usage" (more arguments) | "call"
    wKeep,      \* keep_structure
    wInKind,    \* what the input path is: "dir" | "file" | "missing"
    wTree,      \* the input tree in os.walk order: <<files of ".", files of "sub">>
    wOutRoot,   \* the output directory's path: "absent" | "dir" | "file"
    wOutSub,    \* the path <output directory>/sub:  "absent" | "dir" | "file"
    wPc,        \* position in __main__ / recursive_process_directory
    wDir,       \* index of the directory os.walk is at
    wPending,   \* files of that directory still to convert
    total_files,
    success_count,
    wCalls,     \* the calls of the file converter made so far
    wRet,       \* recursive_process_directory: "none" | "True" | "False" | "raised"
    exitCode,   \* the process's exit status, -1 while it runs
    cSrc,       \* cleanup scenario: the text of the .lrc file before the pass
    cIo,        \* <<rd, wr>>: how reading and rewriting the file went
    cRes,       \* what process_lrc_file returned, the file afterwards, the counters
    cPc,        \* "start" | "done"
    gMode,      \* font scenario: "name" | "extract"
    nName,      \* the font name handed to extract_weight_from_name
    nWeight,    \* its result (None when nothing matched)
    xInstances, \* fvar.instances of the variable font: names and wght values
    xPos,       \* index of the instance the loop of extract_font_weights is at
    processed_weights,
    xSaved,     \* the output paths saved so far, in order
    gPc         \* "start" | "loop" | "done"

timeVars == <<tcIn, tcMid, tcOut, tcPc>>
fileVars == <<fDir, fSrc, fIo, fRes, fPc>>
walkVars == <<wConv, wMode, wKeep, wInKind, wTree, wOutRoot, wOutSub, wPc, wDir,
              wPending, total_files, success_count, wCalls, wRet, exitCode>>
cleanVars == <<cSrc, cIo, cRes, cPc>>
fontVars == <<gMode, nName, nWeight, xInstances, xPos, processed_weights, xSaved, gPc>>
vars == <<timeVars, fileVars, walkVars, cleanVars, fontVars>>

(***************************************************************************)
(* Characters, int() and the {:02d} / {:03d} formats.                      *)
(***************************************************************************)
Digits == <<"0", "1", "2", "3", "4", "5", "6", "7", "8", "9">>

DigitChar(n) == Digits[n + 1]

IsDigit(c) == \E n \in 0..9 : Digits[n + 1] = c

DigitVal(c) == CHOOSE n \in 0..9 : Digits[n + 1] = c

\* int(s) for a string of decimal digits
RECURSIVE ToInt(_)
ToInt(s) ==
    IF s = <<>> THEN 0
    ELSE ToInt(SubSeq(s, 1, Len(s) - 1)) * 10 + DigitVal(s[Len(s)])

\* str(n) for n >= 0
RECURSIVE NatStr(_)
NatStr(n) ==
    IF n < 10 THEN <<DigitChar(n)>>
    ELSE NatStr(n \div 10) \o <<DigitChar(n % 10)>>

RECURSIVE ZeroPad(_, _)
ZeroPad(s, width) ==
    IF Len(s) >= width THEN s ELSE ZeroPad(<<"0">> \o s, width)

\* f"{n:0<width>d}": at least `width` digits, never truncated
Fmt(n, width) == ZeroPad(NatStr(n), width)

\* a raised exception / a returned value
Raised == [ok |-> FALSE, val |-> <<>>]
Ret(v) == [ok |-> TRUE, val |-> v]

\* number of leading digit characters of s
LeadDigits(s) ==
    CHOOSE k \in 0..Len(s) :
        /\ \A i \in 1..k : IsDigit(s[i])
        /\ (k = Len(s) \/ ~IsDigit(s[k + 1]))

(***************************************************************************)
(* re.match(r'(\d{1,3}):(\d{2})\.(\d{2})', s): a prefix match; the greedy  *)
(* \d{1,3} can only end where the ':' stands, so the minutes group is the  *)
(* whole run of leading digits, and that run has 1 to 3 digits.            *)
(***************************************************************************)
LrcTimeMatches(s) ==
    LET k == LeadDigits(s) IN
    /\ k \in 1..3
    /\ Len(s) >= k + 6
    /\ s[k + 1] = ":"
    /\ IsDigit(s[k + 2]) /\ IsDigit(s[k + 3])
    /\ s[k + 4] = "."
    /\ IsDigit(s[k + 5]) /\ IsDigit(s[k + 6])

\* match.groups() of the above
LrcTimeGroups(s) ==
    LET k == LeadDigits(s) IN
    <<SubSeq(s, 1, k), SubSeq(s, k + 2, k + 3), SubSeq(s, k + 5, k + 6)>>

\* length of the text the above match consumes
LrcTimeLen(s) == LeadDigits(s) + 6

(***************************************************************************)
(* re.match(r'(\d{2}):(\d{2}):(\d{2})[,.](\d{3})', s): a prefix match.     *)
(***************************************************************************)
SrtTimeMatches(s) ==
    /\ Len(s) >= 12
    /\ IsDigit(s[1]) /\ IsDigit(s[2]) /\ s[3] = ":"
    /\ IsDigit(s[4]) /\ IsDigit(s[5]) /\ s[6] = ":"
    /\ IsDigit(s[7]) /\ IsDigit(s[8]) /\ s[9] \in {",", "."}
    /\ IsDigit(s[10]) /\ IsDigit(s[11]) /\ IsDigit(s[12])

SrtTimeGroups(s) ==
    <<SubSeq(s, 1, 2), SubSeq(s, 4, 5), SubSeq(s, 7, 8), SubSeq(s, 10, 12)>>

(***************************************************************************)
(* LrcToSrt.py: convert_lrc_time_to_srt                                    *)
(***************************************************************************)
\* a slip that keeps the centiseconds as the millisecond value
convert_lrc_time_to_srt_noscale(lrc_time_str) ==
    IF ~LrcTimeMatches(lrc_time_str) THEN Raised
    ELSE
        LET g == LrcTimeGroups(lrc_time_str)
            total_minutes == ToInt(g[1])
        IN  Ret(Fmt(total_minutes \div 60, 2) \o <<":">> \o Fmt(total_minutes % 60, 2)
                \o <<":">> \o Fmt(ToInt(g[2]), 2) \o <<",">> \o Fmt(ToInt(g[3]), 3))

convert_lrc_time_to_srt(lrc_time_str) ==
    IF ~LrcTimeMatches(lrc_time_str) THEN Raised
    ELSE
        LET g == LrcTimeGroups(lrc_time_str)
            total_minutes == ToInt(g[1])
            seconds == ToInt(g[2])
            centiseconds == ToInt(g[3])
            hours == total_minutes \div 60
            minutes == total_minutes % 60
            milliseconds == centiseconds * 10
        IN  Ret(Fmt(hours, 2) \o <<":">> \o Fmt(minutes, 2) \o <<":">>
                \o Fmt(seconds, 2) \o <<",">> \o Fmt(milliseconds, 3))

(***************************************************************************)
(* SrtToLrc_2.0.py: convert_srt_time_to_lrc                                *)
(***************************************************************************)
\* a slip that rounds the milliseconds to the nearest centisecond
convert_srt_time_to_lrc_rounding(srt_time_str) ==
    IF ~SrtTimeMatches(srt_time_str) THEN Raised
    ELSE
        LET g == SrtTimeGroups(srt_time_str)
            total_minutes == ToInt(g[1]) * 60 + ToInt(g[2])
        IN  Ret(Fmt(total_minutes, 2) \o <<":">> \o Fmt(ToInt(g[3]), 2) \o <<".">>
                \o Fmt((ToInt(g[4]) + 5) \div 10, 2))

convert_srt_time_to_lrc(srt_time_str) ==
    IF ~SrtTimeMatches(srt_time_str) THEN Raised
    ELSE
        LET g == SrtTimeGroups(srt_time_str)
            total_minutes == ToInt(g[1]) * 60 + ToInt(g[2])
            ms_two_digits == SubSeq(g[4], 1, 2)
        IN  Ret(Fmt(total_minutes, 2) \o <<":">> \o Fmt(ToInt(g[3]), 2) \o <<".">>
                \o ms_two_digits)

(***************************************************************************)
(* str.strip(), str.split('\n'), '\n'.join(...), startswith, in.           *)
(***************************************************************************)
Whitespace == {" ", "\t", "\n", "\r"}

RECURSIVE LStrip(_)
LStrip(s) ==
    IF s # <<>> /\ s[1] \in Whitespace THEN LStrip(Tail(s)) ELSE s

RECURSIVE RStrip(_)
RStrip(s) ==
    IF s # <<>> /\ s[Len(s)] \in Whitespace
    THEN RStrip(SubSeq(s, 1, Len(s) - 1)) ELSE s

Strip(s) == RStrip(LStrip(s))

Contains(s, c) == \E i \in 1..Len(s) : s[i] = c

StartsWith(s, c) == s # <<>> /\ s[1] = c

\* s.split('\n'): never empty, ''.split('\n') is ['']
RECURSIVE SplitLines(_)
SplitLines(s) ==
    IF ~Contains(s, "\n") THEN <<s>>
    ELSE LET i == CHOOSE j \in 1..Len(s) :
                      s[j] = "\n" /\ \A h \in 1..(j - 1) : s[h] # "\n"
         IN  <<SubSeq(s, 1, i - 1)>> \o SplitLines(SubSeq(s, i + 1, Len(s)))

\* sep.join(parts)
RECURSIVE Join(_, _)
Join(parts, sep) ==
    IF parts = <<>> THEN <<>>
    ELSE IF Len(parts) = 1 THEN parts[1]
    ELSE parts[1] \o sep \o Join(Tail(parts), sep)

(***************************************************************************)
(* LrcToSrt.py: calculate_duration, ms_to_srt_time                         *)
(***************************************************************************)
\* Python's None, which no string equals
None == <<"None">>

DefaultDuration == 3000
MinDuration == 500

Max(a, b) == IF a >= b THEN a ELSE b

\* (total_min * 60 + sec) * 1000 + cs * 10 for the groups of a compact time
LrcTotalMs(g) == (ToInt(g[1]) * 60 + ToInt(g[2])) * 1000 + ToInt(g[3]) * 10

\* a slip that leaves out the 500 ms floor
calculate_duration_nofloor(current_time, next_time, default_duration) ==
    IF next_time = None THEN default_duration
    ELSE IF ~LrcTimeMatches(current_time) THEN default_duration
    ELSE IF ~LrcTimeMatches(next_time) THEN default_duration
    ELSE LrcTotalMs(LrcTimeGroups(next_time)) - LrcTotalMs(LrcTimeGroups(current_time))

calculate_duration(current_time, next_time, default_duration) ==
    IF next_time = None THEN default_duration
    ELSE IF ~LrcTimeMatches(current_time) THEN default_duration
    ELSE IF ~LrcTimeMatches(next_time) THEN default_duration
    ELSE LET curr_total_ms == LrcTotalMs(LrcTimeGroups(current_time))
             next_total_ms == LrcTotalMs(LrcTimeGroups(next_time))
             duration == next_total_ms - curr_total_ms
         IN  Max(duration, MinDuration)

ms_to_srt_time(milliseconds) ==
    LET hours == milliseconds \div 3600000
        minutes == (milliseconds % 3600000) \div 60000
        seconds == (milliseconds % 60000) \div 1000
        ms == milliseconds % 1000
    IN  Fmt(hours, 2) \o <<":">> \o Fmt(minutes, 2) \o <<":">>
            \o Fmt(seconds, 2) \o <<",">> \o Fmt(ms, 3)

(***************************************************************************)
(* LrcToSrt.py: lrc_to_srt                                                 *)
(***************************************************************************)
\* re.match(r'\[(\d{1,3}:\d{2}\.\d{2})\](.+)', line); '.' matches every
\* character of a line, so (.+) is the non-empty rest of the line
LrcLineMatches(line) ==
    /\ StartsWith(line, "[")
    /\ LrcTimeMatches(Tail(line))
    /\ LET n == LrcTimeLen(Tail(line)) IN
       /\ Len(line) >= n + 3
       /\ line[n + 2] = "]"

\* match.groups(): <<time_str, text>>
LrcLineGroups(line) ==
    LET n == LrcTimeLen(Tail(line)) IN
    <<SubSeq(line, 2, n + 1), SubSeq(line, n + 3, Len(line))>>

\* one turn of the parsing loop (lines 78-105); acc holds entries, the lines
\* printed so far and success_count
LrcParseLine(rawline, line_num, acc) ==
    LET line == Strip(rawline) IN
    IF line = <<>> THEN acc
    ELSE IF ~LrcLineMatches(line) THEN
        IF ~StartsWith(line, "[") \/ ~Contains(line, ":") THEN acc
        ELSE [acc EXCEPT !.log = Append(@, [kind |-> "skip_invalid_line",
                                            line_num |-> line_num])]
    ELSE
        LET g == LrcLineGroups(line)
            time_str == g[1]
            text == Strip(g[2])
            srt_time == convert_lrc_time_to_srt(time_str)
        IN  IF text = <<>> THEN acc
            ELSE IF ~srt_time.ok
            THEN [acc EXCEPT !.log = Append(@, [kind |-> "line_failed",
                                                line_num |-> line_num])]
            ELSE [acc EXCEPT !.entries = Append(@, <<time_str, srt_time.val, text>>),
                             !.success_count = @ + 1]

RECURSIVE LrcParse(_, _, _)
LrcParse(lrc_lines, line_num, acc) ==
    IF line_num > Len(lrc_lines) THEN acc
    ELSE LrcParse(lrc_lines, line_num + 1,
                  LrcParseLine(lrc_lines[line_num], line_num, acc))

Arrow == <<" ", "-", "-", ">", " ">>

\* a slip that numbers a block by the next block's position
SrtBlock_offbyone(entries, i) ==
    LET lrc_time == entries[i][1]
        next_lrc_time == IF i + 1 <= Len(entries) THEN entries[i + 1][1] ELSE None
        duration == calculate_duration(lrc_time, next_lrc_time, DefaultDuration)
        srt_end_time == ms_to_srt_time(LrcTotalMs(LrcTimeGroups(lrc_time)) + duration)
    IN  << NatStr(i + 1), entries[i][2] \o Arrow \o srt_end_time, entries[i][3], <<>> >>

\* the four lines of entry i (1-based here, enumerate's i + 1), lines 113-134
SrtBlock(entries, i) ==
    LET lrc_time == entries[i][1]
        srt_start_time == entries[i][2]
        text == entries[i][3]
        next_lrc_time == IF i + 1 <= Len(entries) THEN entries[i + 1][1] ELSE None
        duration == calculate_duration(lrc_time, next_lrc_time, DefaultDuration)
        srt_end_time ==
            IF LrcTimeMatches(lrc_time)
            THEN LET start_ms == LrcTotalMs(LrcTimeGroups(lrc_time))
                     end_ms == start_ms + duration
                 IN  ms_to_srt_time(end_ms)
            ELSE srt_start_time
    IN  << NatStr(i), srt_start_time \o Arrow \o srt_end_time, text, <<>> >>

RECURSIVE SrtLines(_, _)
SrtLines(entries, i) ==
    IF i > Len(entries) THEN <<>>
    ELSE SrtBlock(entries, i) \o SrtLines(entries, i + 1)

\* lrc_to_srt(lrc_path, srt_path) on a source file whose text is `content`
\* when it can be read (rd = "ok"; "missing": FileNotFoundError; "error": any
\* other exception of open/read), and a destination that can be written
\* (wr = "ok") or not ("ioerror", "error")
lrc_to_srt(content, rd, wr) ==
    IF rd = "missing"
    THEN [ret |-> FALSE, wrote |-> FALSE, text |-> <<>>, count |-> 0,
          log |-> <<[kind |-> "input_missing", line_num |-> 0]>>]
    ELSE IF rd # "ok"
    THEN [ret |-> FALSE, wrote |-> FALSE, text |-> <<>>, count |-> 0,
          log |-> <<[kind |-> "read_error", line_num |-> 0]>>]
    ELSE
        LET lrc_lines == SplitLines(Strip(content))
            parsed == LrcParse(lrc_lines, 1,
                               [entries |-> <<>>, log |-> <<>>, success_count |-> 0])
            entries == parsed.entries
            srt_lines == SrtLines(entries, 1)
        IN  IF entries = <<>>
            THEN [ret |-> FALSE, wrote |-> FALSE, text |-> <<>>, count |-> 0,
                  log |-> Append(parsed.log, [kind |-> "no_valid_lines", line_num |-> 0])]
            ELSE IF wr = "ok"
            THEN [ret |-> TRUE, wrote |-> TRUE, text |-> Join(srt_lines, <<"\n">>),
                  count |-> parsed.success_count,
                  log |-> Append(parsed.log, [kind |-> "converted", line_num |-> 0])]
            ELSE [ret |-> FALSE, wrote |-> FALSE, text |-> <<>>, count |-> 0,
                  log |-> Append(parsed.log,
                                 [kind |-> IF wr = "ioerror" THEN "write_ioerror"
                                           ELSE "write_error", line_num |-> 0])]

(***************************************************************************)
(* SrtToLrc_2.0.py: srt_to_lrc                                             *)
(***************************************************************************)
\* position of the first occurrence of sep in s, 0 when there is none
IndexOf(s, sep) ==
    LET hits == {i \in 1..(Len(s) - Len(sep) + 1) :
                    SubSeq(s, i, i + Len(sep) - 1) = sep}
    IN  IF hits = {} THEN 0 ELSE CHOOSE i \in hits : \A j \in hits : i <= j

\* s.split(sep) for a non-empty sep
RECURSIVE SplitOn(_, _)
SplitOn(s, sep) ==
    LET i == IndexOf(s, sep) IN
    IF i = 0 THEN <<s>>
    ELSE <<SubSeq(s, 1, i - 1)>> \o SplitOn(SubSeq(s, i + Len(sep), Len(s)), sep)

\* a variant that keeps the lines as they are
StripAll_keep(lines) == lines

\* [line.strip() for line in lines]
StripAll(lines) == [i \in 1..Len(lines) |-> Strip(lines[i])]

\* one turn of the loop over entries (lines 37-58); acc holds lrc_lines, the
\* lines printed so far and success_count
SrtParseEntry(entry, acc) ==
    LET entry_lines == SplitLines(Strip(entry)) IN
    IF Len(entry_lines) < 3
    THEN [acc EXCEPT !.log = Append(@, [kind |-> "skip_short_entry", line_num |-> 0])]
    ELSE
        LET time_line == entry_lines[2]
            start_time_str == Strip(SplitOn(time_line, Arrow)[1])
            lrc_time == convert_srt_time_to_lrc(start_time_str)
            text == Join(StripAll(SubSeq(entry_lines, 3, Len(entry_lines))), <<" ">>)
        IN  IF ~lrc_time.ok
            THEN [acc EXCEPT !.log = Append(@, [kind |-> "entry_failed", line_num |-> 0])]
            ELSE [acc EXCEPT !.lrc_lines = Append(@, <<"[">> \o lrc_time.val \o <<"]">> \o text),
                             !.success_count = @ + 1]

RECURSIVE SrtParse(_, _, _)
SrtParse(entries, i, acc) ==
    IF i > Len(entries) THEN acc
    ELSE SrtParse(entries, i + 1, SrtParseEntry(entries[i], acc))

\* srt_to_lrc(srt_path, lrc_path); content, rd, wr as for lrc_to_srt
srt_to_lrc(content, rd, wr) ==
    IF rd = "missing"
    THEN [ret |-> FALSE, wrote |-> FALSE, text |-> <<>>, count |-> 0,
          log |-> <<[kind |-> "input_missing", line_num |-> 0]>>]
    ELSE IF rd # "ok"
    THEN [ret |-> FALSE, wrote |-> FALSE, text |-> <<>>, count |-> 0,
          log |-> <<[kind |-> "read_error", line_num |-> 0]>>]
    ELSE
        LET entries == SplitOn(Strip(content), <<"\n", "\n">>)
            parsed == SrtParse(entries, 1,
                               [lrc_lines |-> <<>>, log |-> <<>>, success_count |-> 0])
        IN  IF wr = "ok"
            THEN [ret |-> TRUE, wrote |-> TRUE, text |-> Join(parsed.lrc_lines, <<"\n">>),
                  count |-> parsed.success_count,
                  log |-> Append(parsed.log, [kind |-> "converted", line_num |-> 0])]
            ELSE [ret |-> FALSE, wrote |-> FALSE, text |-> <<>>, count |-> 0,
                  log |-> Append(parsed.log,
                                 [kind |-> IF wr = "ioerror" THEN "write_ioerror"
                                           ELSE "write_error", line_num |-> 0])]

(***************************************************************************)
(* Time-code inputs.                                                       *)
(***************************************************************************)
\* all strings over `alphabet` of length lo..hi
StringsOver(alphabet, lo, hi) ==
    UNION {[1..n -> alphabet] : n \in lo..hi}

MinuteDigits == {"0", "1", "5", "6", "9"}
SecondFields == {<<"0","0">>, <<"0","9">>, <<"1","0">>, <<"4","5">>, <<"5","9">>,
                 <<"6","0">>, <<"9","9">>}
CentiFields  == {<<"0","0">>, <<"0","1">>, <<"0","9">>, <<"1","0">>, <<"3","0">>,
                 <<"6","7">>, <<"9","9">>}

CompactInputs ==
    {m \o <<":">> \o s \o <<".">> \o c :
        m \in StringsOver(MinuteDigits, 1, 3) \cup {<<"0","3">>},
        s \in SecondFields, c \in CentiFields}

HourFields == {<<"0","0">>, <<"0","1">>, <<"1","6">>, <<"9","9">>}
MinFields  == {<<"0","0">>, <<"0","5">>, <<"3","9">>, <<"5","9">>}
SecFields  == {<<"0","0">>, <<"0","9">>, <<"4","5">>, <<"5","9">>}
MilliDigits == {"0", "1", "5", "9"}

ExpandedInputs ==
    {h \o <<":">> \o m \o <<":">> \o s \o <<sep>> \o ms :
        h \in HourFields, m \in MinFields, s \in SecFields, sep \in {",", "."},
        ms \in StringsOver(MilliDigits, 3, 3)}

MalformedInputs ==
    { <<>>,
      <<"0","3","4","5",".","6","7">>,
      <<"0","3",":","4","5">>,
      <<"1","2","3","4",":","0","0",".","0","0">>,
      <<"0","0",":","0","0",":","0","0",";","0","1","9">>,
      <<"0","0",":","0","0",":","0","0",",","1","9">> }

(***************************************************************************)
(* The time-code scenario: each input is handed to either converter, and   *)
(* the expanded form of a compact input is handed back to                  *)
(* convert_srt_time_to_lrc.                                                *)
(***************************************************************************)
TimeIdle ==
    /\ tcIn = <<>>
    /\ tcMid = Raised
    /\ tcOut = Raised
    /\ tcPc = "idle"

\* the file converter has not been run
NotRun == [ret |-> FALSE, wrote |-> FALSE, text |-> <<>>, log |-> <<>>, count |-> 0]

FileIdle ==
    /\ fDir = "none"
    /\ fSrc = <<>>
    /\ fIo = <<"none", "none">>
    /\ fRes = NotRun
    /\ fPc = "idle"

WalkIdle ==
    /\ wConv = "none"
    /\ wMode = "none"
    /\ wKeep = FALSE
    /\ wInKind = "none"
    /\ wTree = <<>>
    /\ wOutRoot = "none"
    /\ wOutSub = "none"
    /\ wPc = "idle"
    /\ wDir = 0
    /\ wPending = <<>>
    /\ total_files = 0
    /\ success_count = 0
    /\ wCalls = <<>>
    /\ wRet = "none"
    /\ exitCode = -1

\* process_lrc_file has not been run
CleanNotRun == [ret |-> FALSE, wrote |-> FALSE, text |-> <<>>,
                replacement_counts |-> <<>>, empty_line_count |-> 0]

CleanIdle ==
    /\ cSrc = <<>>
    /\ cIo = <<"none", "none">>
    /\ cRes = CleanNotRun
    /\ cPc = "idle"

FontIdle ==
    /\ gMode = "none"
    /\ nName = <<>>
    /\ nWeight = 0
    /\ xInstances = <<>>
    /\ xPos = 0
    /\ processed_weights = <<>>
    /\ xSaved = <<>>
    /\ gPc = "idle"

InitTime ==
    /\ tcIn \in CompactInputs \cup ExpandedInputs \cup MalformedInputs
    /\ tcMid = Raised
    /\ tcOut = Raised
    /\ tcPc = "start"
    /\ FileIdle
    /\ WalkIdle
    /\ CleanIdle
    /\ FontIdle

ToExpanded ==
    /\ tcPc = "start"
    /\ tcMid' = convert_lrc_time_to_srt(tcIn)
    /\ tcPc' = "expanded"
    /\ UNCHANGED <<tcIn, tcOut, fileVars, walkVars, cleanVars, fontVars>>

ToCompact ==
    /\ tcPc = "start"
    /\ tcOut' = convert_srt_time_to_lrc(tcIn)
    /\ tcPc' = "compact"
    /\ UNCHANGED <<tcIn, tcMid, fileVars, walkVars, cleanVars, fontVars>>

BackToCompact ==
    /\ tcPc = "expanded"
    /\ tcMid.ok
    /\ tcOut' = convert_srt_time_to_lrc(tcMid.val)
    /\ tcPc' = "roundtrip"
    /\ UNCHANGED <<tcIn, tcMid, fileVars, walkVars, cleanVars, fontVars>>

NextTime == ToExpanded \/ ToCompact \/ BackToCompact

SpecTime == InitTime /\ [][NextTime]_vars

TypeTime ==
    /\ tcPc \in {"start", "expanded", "compact", "roundtrip"}
    /\ tcMid.ok \in BOOLEAN
    /\ tcOut.ok \in BOOLEAN


(***************************************************************************)
(* The single-file scenario: one source file is converted once, in either  *)
(* direction; whether the source can be read and the destination written   *)
(* is decided by the file system when the converter runs.                  *)
(***************************************************************************)
MaxLines == 3
MaxBlocks == 2

ReadOutcomes == {"ok", "missing", "error"}
WriteOutcomes == {"ok", "ioerror", "error"}

\* one LRC line: [mm:ss.cc]text
LrcLine(mm, ss, cc, text) ==
    <<"[">> \o mm \o <<":">> \o ss \o <<".">> \o cc \o <<"]">> \o text

LrcSampleLines ==
    { LrcLine(<<"0","0">>, <<"0","0">>, <<"0","0">>, <<"a">>),
      LrcLine(<<"0","0">>, <<"0","0">>, <<"3","0">>, <<"b"," ","c">>),
      LrcLine(<<"0","1">>, <<"0","0">>, <<"0","0">>, <<"d">>),
      <<" ">> \o LrcLine(<<"1">>, <<"0","5">>, <<"0","0">>, <<" ","e"," ","\r">>),
      LrcLine(<<"9","9","9">>, <<"5","9">>, <<"9","9">>, <<"g">>),
      LrcLine(<<"0","0">>, <<"7","5">>, <<"0","0">>, <<"h">>),
      LrcLine(<<"0","0">>, <<"0","2">>, <<"0","0">>, <<" ">>),
      LrcLine(<<"1","2","3","4">>, <<"0","0">>, <<"0","0">>, <<"z">>),
      <<"[","t","i",":","x","]">>,
      <<"n","o","t"," ","a"," ","t","i","m","e","s","t","a","m","p">>,
      <<"a",":","b">>,
      <<>> }

LrcContents ==
    {Join(ls, <<"\n">>) : ls \in StringsOver(LrcSampleLines, 0, MaxLines)}

SrtTime(hh, mm, ss, sep, ms) ==
    hh \o <<":">> \o mm \o <<":">> \o ss \o <<sep>> \o ms

SrtSampleBlocks ==
    { <<"1", "\n">> \o SrtTime(<<"0","0">>, <<"0","0">>, <<"0","1">>, ",", <<"0","0","0">>)
          \o Arrow \o SrtTime(<<"0","0">>, <<"0","0">>, <<"0","2">>, ",", <<"0","0","0">>)
          \o <<"\n", "h", "i">>,
      <<"2", "\n">> \o SrtTime(<<"0","1">>, <<"0","2">>, <<"0","3">>, ".", <<"4","5","6">>)
          \o Arrow \o SrtTime(<<"0","1">>, <<"0","2">>, <<"0","4">>, ".", <<"0","0","0">>)
          \o <<"\n", "u", " ", "\n", " ", "v">>,
      <<"3", "\n">> \o SrtTime(<<"0","0">>, <<"0","0">>, <<"0","5">>, ",", <<"0","1","9">>)
          \o Arrow \o SrtTime(<<"0","0">>, <<"0","0">>, <<"0","6">>, ",", <<"0","0","0">>),
      <<"4", "\n", "b", "a", "d">> \o Arrow
          \o SrtTime(<<"0","0">>, <<"0","0">>, <<"0","6">>, ",", <<"0","0","0">>)
          \o <<"\n", "w">>,
      <<"5", "\n">> \o SrtTime(<<"0","0">>, <<"0","0">>, <<"0","7">>, ",", <<"9","9","5">>)
          \o <<"\n", "x", "\r">>,
      <<"6">>,
      <<>> }

SrtContents ==
    {Join(bs, <<"\n", "\n">>) : bs \in StringsOver(SrtSampleBlocks, 0, MaxBlocks)}

InitFile ==
    /\ \/ fDir = "lrc2srt" /\ fSrc \in LrcContents
       \/ fDir = "srt2lrc" /\ fSrc \in SrtContents
    /\ fIo = <<"none", "none">>
    /\ fRes = NotRun
    /\ fPc = "start"
    /\ TimeIdle
    /\ WalkIdle
    /\ CleanIdle
    /\ FontIdle

LrcToSrtRun ==
    /\ fPc = "start" /\ fDir = "lrc2srt"
    /\ \E rd \in ReadOutcomes, wr \in WriteOutcomes :
           /\ fIo' = <<rd, wr>>
           /\ fRes' = lrc_to_srt(fSrc, rd, wr)
    /\ fPc' = "done"
    /\ UNCHANGED <<fDir, fSrc, timeVars, walkVars, cleanVars, fontVars>>

SrtToLrcRun ==
    /\ fPc = "start" /\ fDir = "srt2lrc"
    /\ \E rd \in ReadOutcomes, wr \in WriteOutcomes :
           /\ fIo' = <<rd, wr>>
           /\ fRes' = srt_to_lrc(fSrc, rd, wr)
    /\ fPc' = "done"
    /\ UNCHANGED <<fDir, fSrc, timeVars, walkVars, cleanVars, fontVars>>

NextFile == LrcToSrtRun \/ SrtToLrcRun

SpecFile == InitFile /\ [][NextFile]_vars

(***************************************************************************)
(* The claim's preconditions on time-code strings.                          *)
(***************************************************************************)
\* mm:ss.cc, minutes 0..999 written with at least two digits and no further
\* padding, seconds 00..59, centiseconds 00..99, and nothing after it
IsCompactTimeCode(t) ==
    LET k == LeadDigits(t) IN
    /\ LrcTimeMatches(t)
    /\ Len(t) = k + 6
    /\ k >= 2
    /\ (k = 3 => t[1] # "0")
    /\ ToInt(LrcTimeGroups(t)[2]) <= 59

\* HH:MM:SS,mmm or HH:MM:SS.mmm, minutes and seconds 00..59
IsExpandedTimeCode(t) ==
    /\ SrtTimeMatches(t)
    /\ Len(t) = 12
    /\ ToInt(SrtTimeGroups(t)[2]) <= 59
    /\ ToInt(SrtTimeGroups(t)[3]) <= 59

\* C1: a compact time-code mm:ss.cc (minutes 0..999 zero-padded to two digits,
\* seconds 00..59, centiseconds 00..99) converted to the expanded form and back
\* is the original string.
C1_RoundTrip ==
    (tcPc = "roundtrip" /\ IsCompactTimeCode(tcIn)) => tcOut = Ret(tcIn)

\* "03:45.67" went to "00:03:45,670" and came back
C1_Witness ==
    /\ tcPc = "roundtrip"
    /\ tcIn = <<"0","3",":","4","5",".","6","7">>
    /\ tcMid = Ret(<<"0","0",":","0","3",":","4","5",",","6","7","0">>)
    /\ tcOut = Ret(tcIn)

\* C2: for a valid expanded time-code HH:MM:SS,mmm (or with '.'), the result of
\* convert_srt_time_to_lrc has the form M..M:SS.CC where CC is two digits of
\* value mmm div 10 (truncated, never rounded), SS is the input's seconds field
\* and M..M has the value HH*60+MM.
C2_NeverRounds ==
    (tcPc = "compact" /\ IsExpandedTimeCode(tcIn)) =>
        /\ tcOut.ok
        /\ LET out == tcOut.val
               k == LeadDigits(out)
               g == SrtTimeGroups(tcIn)
           IN  /\ k >= 1
               /\ Len(out) = k + 6
               /\ out[k + 1] = ":"
               /\ out[k + 4] = "."
               /\ ToInt(SubSeq(out, 1, k)) = ToInt(g[1]) * 60 + ToInt(g[2])
               /\ SubSeq(out, k + 2, k + 3) = g[3]
               /\ IsDigit(out[k + 5]) /\ IsDigit(out[k + 6])
               /\ ToInt(SubSeq(out, k + 5, k + 6)) = ToInt(g[4]) \div 10

\* "00:00:00,019" gave "00:00.01": 19 ms are 1 cs, not 2
C2_Witness ==
    /\ tcPc = "compact"
    /\ tcIn = <<"0","0",":","0","0",":","0","0",",","0","1","9">>
    /\ tcOut = Ret(<<"0","0",":","0","0",".","0","1">>)

(***************************************************************************)
(* str.lower(), str.endswith(), os.path.splitext() on file names.          *)
(***************************************************************************)
UpperCase == <<"A","B","C","D","E","F","G","H","I","J","K","L","M",
               "N","O","P","Q","R","S","T","U","V","W","X","Y","Z">>
LowerCase == <<"a","b","c","d","e","f","g","h","i","j","k","l","m",
               "n","o","p","q","r","s","t","u","v","w","x","y","z">>

LowerChar(c) ==
    IF \E k \in 1..26 : UpperCase[k] = c
    THEN LowerCase[CHOOSE k \in 1..26 : UpperCase[k] = c]
    ELSE c

Lower(name) == [k \in 1..Len(name) |-> LowerChar(name[k])]

EndsWith(name, suffix) ==
    /\ Len(name) >= Len(suffix)
    /\ SubSeq(name, Len(name) - Len(suffix) + 1, Len(name)) = suffix

\* os.path.splitext(filename)[0]: the name up to its last '.', unless only
\* dots stand before that '.', in which case the name has no extension
SplitextRoot(filename) ==
    LET dots == {k \in 1..Len(filename) : filename[k] = "."}
        dotIndex == IF dots = {} THEN 0
                    ELSE CHOOSE k \in dots : \A h \in dots : h <= k
    IN  IF dotIndex > 0 /\ \E k \in 1..(dotIndex - 1) : filename[k] # "."
        THEN SubSeq(filename, 1, dotIndex - 1)
        ELSE filename

(***************************************************************************)
(* recursive_process_directory and __main__ of both scripts, which differ  *)
(* only in the extensions and in the converter they call.                  *)
(***************************************************************************)
SrcExt(conv) == IF conv = "lrc2srt" THEN <<".","l","r","c">> ELSE <<".","s","r","t">>
DstExt(conv) == IF conv = "lrc2srt" THEN <<".","s","r","t">> ELSE <<".","l","r","c">>


\* f.lower().endswith('.lrc') / '.srt'
HasSrcExt(filename) == EndsWith(Lower(filename), SrcExt(wConv))

\* paths of directories are sequences of component names
InputDir == <<"in">>

\* sys.argv[2], or the default-named directory inside the input directory
OutputDir == IF wMode \in {"argv0", "argv1"} THEN InputDir \o <<"out">> ELSE <<"dst">>

\* the directories os.walk(input_dir) yields, top-down; walking a path that is
\* not a directory yields nothing
WalkRoots ==
    IF wInKind = "dir" THEN <<InputDir, InputDir \o <<"sub">>>> ELSE <<>>

\* os.path.relpath(root, input_dir)
RelPath(root, input_dir) ==
    IF root = input_dir THEN <<".">>
    ELSE SubSeq(root, Len(input_dir) + 1, Len(root))

\* a slip that ignores the relative path
SubOutputDir_flat(root, output_dir, keep_structure) == output_dir

\* sub_output_dir of lines 178 and 184-189
SubOutputDir(root, output_dir, keep_structure) ==
    LET rel_path == IF keep_structure THEN RelPath(root, InputDir) ELSE <<>> IN
    IF keep_structure /\ rel_path # <<".">>
    THEN output_dir \o rel_path
    ELSE output_dir

\* output_filename of line 191
OutputFilename(filename) == SplitextRoot(filename) \o DstExt(wConv)

\* what stands at a directory path of the output side
PathState(dir) == IF dir = OutputDir THEN wOutRoot ELSE wOutSub

\* the source files the scenario draws from: text that parses to an entry
\* and text that parses to none
GoodContent(conv) ==
    IF conv = "lrc2srt"
    THEN LrcLine(<<"0","0">>, <<"0","0">>, <<"0","0">>, <<"a">>)
    ELSE <<"1", "\n">> \o SrtTime(<<"0","0">>, <<"0","0">>, <<"0","1">>, ",", <<"0","0","0">>)
          \o Arrow \o SrtTime(<<"0","0">>, <<"0","0">>, <<"0","2">>, ",", <<"0","0","0">>)
          \o <<"\n", "h", "i">>

BadContent(conv) ==
    IF conv = "lrc2srt" THEN <<"[","t","i",":","x","]">> ELSE <<"6">>

\* <<content, rd, wr>>: a good file, a file without entries, an unreadable
\* file, a destination that cannot be written
FileSituations ==
    { <<"good", "ok", "ok">>, <<"bad", "ok", "ok">>,
      <<"good", "error", "ok">>, <<"good", "ok", "ioerror">> }

ContentOf(conv, label) == IF label = "good" THEN GoodContent(conv) ELSE BadContent(conv)

\* lrc_to_srt / srt_to_lrc on the scenario's files, computed once
Conversions ==
    [conv \in {"lrc2srt", "srt2lrc"}, label \in {"good", "bad"},
     rd \in ReadOutcomes, wr \in WriteOutcomes |->
        IF conv = "lrc2srt" THEN lrc_to_srt(ContentOf(conv, label), rd, wr)
        ELSE srt_to_lrc(ContentOf(conv, label), rd, wr)]

\* the call of line 194 (LrcToSrt.py) / 118 (SrtToLrc_2.0.py)
Convert(conv, label, rd, wr) == Conversions[conv, label, rd, wr]

\* one call of the file converter, as the scenario records it
CallRecord(src_dir, filename, dst_dir, dst_name, dst_state, sit, wr, r) ==
    [src |-> [dir |-> src_dir, name |-> filename],
     dst |-> [dir |-> dst_dir, name |-> dst_name],
     dstDir |-> dst_state,
     content |-> sit[1], rd |-> sit[2], wr |-> wr,
     ret |-> r.ret, count |-> r.count]

MaxFilesPerDir == 2

FileNames(conv) ==
    IF conv = "lrc2srt"
    THEN << <<"a",".","l","r","c">>, <<"a",".","b",".","L","R","C">>,
            <<".","l","r","c">>, <<"c",".","t","x","t">> >>
    ELSE << <<"a",".","s","r","t">>, <<"a",".","b",".","S","R","T">>,
            <<".","s","r","t">>, <<"c",".","t","x","t">> >>

\* the file lists of one directory: up to MaxFilesPerDir of the names above
FileLists(conv) ==
    LET names == FileNames(conv) IN
    { [k \in 1..Cardinality(S) |->
          names[CHOOSE n \in S : Cardinality({m \in S : m < n}) = k - 1]] :
      S \in {T \in SUBSET (1..Len(names)) : Cardinality(T) <= MaxFilesPerDir} }

InitWalk ==
    /\ wConv \in {"lrc2srt", "srt2lrc"}
    /\ wMode \in {"argv0", "argv1", "argv2", "usage", "call"}
    \* __main__ always leaves keep_structure at its default, True; the
    \* direct call is the one without it
    /\ wKeep = (wMode # "call")
    /\ wInKind \in CASE wMode = "argv0" -> {"dir"}
                     [] wMode = "usage" -> {"dir"}
                     [] OTHER -> {"dir", "file", "missing"}
    /\ wTree \in CASE wMode = "usage" \/ wInKind = "missing" -> {<<<<>>, <<>>>>}
                   [] wInKind = "file" ->
                        {<<<<FileNames(wConv)[n]>>, <<>>>> : n \in 1..Len(FileNames(wConv))}
                   [] OTHER -> FileLists(wConv) \X FileLists(wConv)
    /\ wOutRoot \in CASE wMode = "usage" \/ wInKind = "missing" -> {"absent"}
                      [] wInKind = "file" /\ wMode = "argv1" -> {"dir"}
                      [] OTHER -> {"absent", "dir", "file"}
    /\ wOutSub \in IF wOutRoot = "dir" /\ wInKind = "dir" /\ wKeep /\ wMode # "usage"
                   THEN {"absent", "dir", "file"} ELSE {"absent"}
    /\ wPc = IF wMode = "call" THEN "walk_begin" ELSE "main"
    /\ wDir = 0
    /\ wPending = <<>>
    /\ total_files = 0
    /\ success_count = 0
    /\ wCalls = <<>>
    /\ wRet = "none"
    /\ exitCode = -1
    /\ TimeIdle
    /\ FileIdle
    /\ CleanIdle
    /\ FontIdle

walkFrame == <<wConv, wMode, wKeep, wInKind, wTree>>

\* __main__ up to the call it dispatches to (lines 209-265)
MainStart ==
    /\ wPc = "main"
    /\ IF wMode = "usage"
       THEN wPc' = "exited" /\ exitCode' = 1
       ELSE IF wMode = "argv0" \/ wInKind = "dir"
       THEN wPc' = "walk_begin" /\ UNCHANGED exitCode
       ELSE IF wInKind = "file"
       THEN wPc' = "single" /\ UNCHANGED exitCode
       ELSE wPc' = "exited" /\ exitCode' = 1
    /\ UNCHANGED <<walkFrame, wOutRoot, wOutSub, wDir, wPending, total_files,
                   success_count, wCalls, wRet, timeVars, fileVars, cleanVars, fontVars>>

\* __main__ on a single file (lines 246-254, 270-272): the output file is put
\* beside the input (one argument) or where the second argument says
MainSingleFile ==
    /\ wPc = "single"
    /\ LET filename == wTree[1][1]
           dst_dir == IF wMode = "argv1" THEN InputDir ELSE OutputDir
           dst_name == IF wMode = "argv1" THEN SplitextRoot(filename) \o DstExt(wConv)
                       ELSE <<"o">> \o DstExt(wConv)
       IN  \E mk \in {"ok", "raise"}, sit \in FileSituations :
               IF wMode = "argv2" /\ wOutRoot = "absent" /\ mk = "raise"
               THEN /\ exitCode' = 1
                    /\ UNCHANGED <<wOutRoot, wCalls>>
               ELSE LET dst_state == IF wMode = "argv1" THEN "dir"
                                         ELSE IF wOutRoot = "absent" THEN "dir"
                                         ELSE wOutRoot
                        wr == IF dst_state # "dir" THEN "ioerror" ELSE sit[3]
                        r == Convert(wConv, sit[1], sit[2], wr)
                    IN  /\ wOutRoot' = IF wMode = "argv2" THEN dst_state ELSE wOutRoot
                        /\ wCalls' = Append(wCalls,
                                CallRecord(InputDir, filename, dst_dir, dst_name,
                                           dst_state, sit, wr, r))
                           /\ exitCode' = IF r.ret THEN 0 ELSE 1
    /\ wPc' = "exited"
    /\ UNCHANGED <<walkFrame, wOutSub, wDir, wPending, total_files, success_count,
                   wRet, timeVars, fileVars, cleanVars, fontVars>>

\* recursive_process_directory, lines 155-167
WalkBegin ==
    /\ wPc = "walk_begin"
    /\ IF wInKind = "missing"
       THEN wRet' = "False" /\ wPc' = "walk_done" /\ UNCHANGED <<wOutRoot, wDir>>
       ELSE IF wOutRoot = "absent"
       THEN \E mk \in {"ok", "raise"} :
                IF mk = "ok"
                THEN wOutRoot' = "dir" /\ wPc' = "walk_dir" /\ wDir' = 1 /\ UNCHANGED wRet
                ELSE wRet' = "False" /\ wPc' = "walk_done" /\ UNCHANGED <<wOutRoot, wDir>>
       ELSE wPc' = "walk_dir" /\ wDir' = 1 /\ UNCHANGED <<wOutRoot, wRet>>
    /\ UNCHANGED <<walkFrame, wOutSub, wPending, total_files, success_count, wCalls,
                   exitCode, timeVars, fileVars, cleanVars, fontVars>>

\* one turn of the os.walk loop up to its inner loop, lines 170-178
WalkDir ==
    /\ wPc = "walk_dir"
    /\ IF wDir > Len(WalkRoots)
       THEN wPc' = "walk_end" /\ UNCHANGED <<wDir, wPending, total_files>>
       ELSE LET src_files == SelectSeq(wTree[wDir], HasSrcExt) IN
            IF src_files = <<>>
            THEN wDir' = wDir + 1 /\ UNCHANGED <<wPc, wPending, total_files>>
            ELSE /\ total_files' = total_files + Len(src_files)
                 /\ wPending' = src_files
                 /\ wPc' = "walk_file"
                 /\ UNCHANGED wDir
    /\ UNCHANGED <<walkFrame, wOutRoot, wOutSub, success_count, wCalls, wRet,
                   exitCode, timeVars, fileVars, cleanVars, fontVars>>

\* one turn of the inner loop, lines 180-195; os.makedirs is not guarded
\* there, so its exception leaves the function
WalkFile ==
    /\ wPc = "walk_file"
    /\ LET filename == Head(wPending)
           root == WalkRoots[wDir]
           sub_output_dir == SubOutputDir(root, OutputDir, wKeep)
           makes == wKeep /\ RelPath(root, InputDir) # <<".">>
                        /\ PathState(sub_output_dir) = "absent"
       IN  \E mk \in {"ok", "raise"}, sit \in FileSituations :
               IF makes /\ (mk = "raise" \/ wOutRoot # "dir")
               THEN /\ wRet' = "raised"
                    /\ wPc' = "walk_done"
                    /\ UNCHANGED <<wOutSub, wCalls, success_count, wPending, wDir>>
               ELSE /\ wOutSub' = IF makes THEN "dir" ELSE wOutSub
                    /\ LET dst_state == IF makes THEN "dir" ELSE PathState(sub_output_dir)
                           wr == IF dst_state # "dir" THEN "ioerror" ELSE sit[3]
                           r == Convert(wConv, sit[1], sit[2], wr)
                       IN  /\ wCalls' = Append(wCalls,
                                   CallRecord(root, filename, sub_output_dir,
                                              OutputFilename(filename), dst_state,
                                              sit, wr, r))
                           /\ success_count' = IF r.ret THEN success_count + 1
                                               ELSE success_count
                    /\ wPending' = Tail(wPending)
                    /\ IF Tail(wPending) = <<>>
                       THEN wDir' = wDir + 1 /\ wPc' = "walk_dir"
                       ELSE UNCHANGED <<wDir, wPc>>
                    /\ UNCHANGED wRet
    /\ UNCHANGED <<walkFrame, wOutRoot, total_files, exitCode, timeVars, fileVars, cleanVars, fontVars>>

\* lines 197-202
WalkEnd ==
    /\ wPc = "walk_end"
    /\ wRet' = IF total_files = 0 THEN "False"
               ELSE IF success_count = total_files THEN "True" ELSE "False"
    /\ wPc' = "walk_done"
    /\ UNCHANGED <<walkFrame, wOutRoot, wOutSub, wDir, wPending, total_files,
                   success_count, wCalls, exitCode, timeVars, fileVars, cleanVars, fontVars>>

\* __main__ after recursive_process_directory: sys.exit(0) whatever it
\* returned when there were no arguments (lines 214-215), sys.exit(0 if
\* success else 1) otherwise (lines 260-261); an exception ends the process
\* with status 1 (the handler of lines 270-272, or the interpreter's own)
MainExit ==
    /\ wPc = "walk_done"
    /\ wMode # "call"
    /\ exitCode' = IF wRet = "raised" THEN 1
                   ELSE IF wMode = "argv0" THEN 0
                   ELSE IF wRet = "True" THEN 0 ELSE 1
    /\ wPc' = "exited"
    /\ UNCHANGED <<walkFrame, wOutRoot, wOutSub, wDir, wPending, total_files,
                   success_count, wCalls, wRet, timeVars, fileVars, cleanVars, fontVars>>

NextWalk ==
    \/ MainStart \/ MainSingleFile
    \/ WalkBegin \/ WalkDir \/ WalkFile \/ WalkEnd
    \/ MainExit

SpecWalk == InitWalk /\ [][NextWalk]_vars

(***************************************************************************)
(* Reading the converter's input and output for the claims below.          *)
(***************************************************************************)
\* an expanded time-code read as milliseconds since media start
SrtMs(t) ==
    LET g == SrtTimeGroups(t) IN
    ToInt(g[1]) * 3600000 + ToInt(g[2]) * 60000 + ToInt(g[3]) * 1000 + ToInt(g[4])

\* a compact time-code read as milliseconds since media start
LrcMs(t) == LrcTotalMs(LrcTimeGroups(t))

\* an input line that matches the timestamp form with non-empty trimmed text
IsValidLrcLine(rawline) ==
    /\ LrcLineMatches(Strip(rawline))
    /\ Strip(LrcLineGroups(Strip(rawline))[2]) # <<>>

\* the valid lines of the source file, in file order, each stripped
ValidLrcLines == SelectSeq(StripAll(SplitLines(fSrc)), IsValidLrcLine)

\* the lines of the written destination file
OutLines == SplitLines(fRes.text)

LrcWritten == fPc = "done" /\ fDir = "lrc2srt" /\ fRes.wrote

\* C3: every emitted SRT entry i ends d after its start, d = 3000 ms for the
\* last entry of the file and max(start(i+1) - start(i), 500 ms) otherwise.
C3_DurationSynthesis ==
    LrcWritten =>
        LET ins == ValidLrcLines
            N == Len(ins)
            start(i) == LrcMs(LrcLineGroups(ins[i])[1])
            d(i) == IF i = N THEN 3000
                    ELSE IF start(i + 1) - start(i) < 500 THEN 500
                    ELSE start(i + 1) - start(i)
        IN  /\ Len(OutLines) = 4 * N
            /\ \A i \in 1..N :
                   LET range == SplitOn(OutLines[4 * i - 2], Arrow) IN
                   /\ Len(range) = 2
                   /\ SrtTimeMatches(range[1]) /\ SrtTimeMatches(range[2])
                   /\ SrtMs(range[1]) = start(i)
                   /\ SrtMs(range[2]) = SrtMs(range[1]) + d(i)

\* entries at 00:00.00, 00:00.30 and 01:00.00: the first is floored to 500 ms,
\* the second ends at the third's start, the third (last) lasts 3000 ms
C3_Witness ==
    /\ LrcWritten
    /\ Len(OutLines) = 12
    /\ OutLines[2] = SrtTime(<<"0","0">>, <<"0","0">>, <<"0","0">>, ",", <<"0","0","0">>)
            \o Arrow \o SrtTime(<<"0","0">>, <<"0","0">>, <<"0","0">>, ",", <<"5","0","0">>)
    /\ OutLines[6] = SrtTime(<<"0","0">>, <<"0","0">>, <<"0","0">>, ",", <<"3","0","0">>)
            \o Arrow \o SrtTime(<<"0","0">>, <<"0","1">>, <<"0","0">>, ",", <<"0","0","0">>)
    /\ OutLines[10] = SrtTime(<<"0","0">>, <<"0","1">>, <<"0","0">>, ",", <<"0","0","0">>)
            \o Arrow \o SrtTime(<<"0","0">>, <<"0","1">>, <<"0","3">>, ",", <<"0","0","0">>)

\* the number of entries the converter of direction fDir parses from fSrc
ParsedEntryCount ==
    IF fDir = "lrc2srt"
    THEN LrcParse(SplitLines(Strip(fSrc)), 1,
                  [entries |-> <<>>, log |-> <<>>, success_count |-> 0]).success_count
    ELSE SrtParse(SplitOn(Strip(fSrc), <<"\n", "\n">>), 1,
                  [lrc_lines |-> <<>>, log |-> <<>>, success_count |-> 0]).success_count

\* C4: in both directions a source file that parses to zero valid entries is
\* reported as a failure: the converter returns False.
C4_ZeroEntriesFail ==
    (fPc = "done" /\ ParsedEntryCount = 0) => ~fRes.ret

\* C8: a non-matching line that starts with '[' and contains ':' is skipped with
\* no warning, every other non-matching non-blank line is skipped with a
\* warning, and the file still converts with one entry per valid line.
C8_LineClassification ==
    (fPc = "done" /\ fDir = "lrc2srt" /\ fIo[1] = "ok") =>
        LET lines == StripAll(SplitLines(Strip(fSrc)))
            Warned(n) == \E k \in 1..Len(fRes.log) :
                             fRes.log[k] = [kind |-> "skip_invalid_line", line_num |-> n]
        IN  /\ \A n \in 1..Len(lines) :
                   (lines[n] # <<>> /\ ~LrcLineMatches(lines[n])) =>
                       IF StartsWith(lines[n], "[") /\ Contains(lines[n], ":")
                       THEN ~Warned(n)
                       ELSE Warned(n)
            /\ (ValidLrcLines # <<>> /\ fIo[2] = "ok") =>
                   fRes.ret /\ fRes.count = Len(ValidLrcLines)

\* C10: the output holds exactly one block per input line that matches the
\* timestamp form with non-empty trimmed text, in input file order, and the
\* index lines are 1..N with no gaps.
C10_Rendering ==
    LrcWritten =>
        LET ins == ValidLrcLines
            N == Len(ins)
        IN  /\ Len(OutLines) = 4 * N
            /\ \A i \in 1..N :
                   /\ OutLines[4 * i - 3] = NatStr(i)
                   /\ SrtTimeMatches(OutLines[4 * i - 2])
                   /\ SrtMs(OutLines[4 * i - 2]) = LrcMs(LrcLineGroups(ins[i])[1])
                   /\ OutLines[4 * i - 1] = Strip(LrcLineGroups(ins[i])[2])
                   /\ OutLines[4 * i] = <<>>

\* a header, a line at 01:00.00, a plain line and a line at 00:00.00 give two
\* blocks, numbered 1 and 2, the later time first
C10_Witness ==
    /\ LrcWritten
    /\ Len(SplitLines(fSrc)) = 3
    /\ ~IsValidLrcLine(SplitLines(fSrc)[1])
    /\ Len(OutLines) = 8
    /\ OutLines[1] = <<"1">> /\ OutLines[3] = <<"d">>
    /\ OutLines[5] = <<"2">> /\ OutLines[7] = <<"a">>

(***************************************************************************)
(* Reading the batch scenario for the claims below.                        *)
(***************************************************************************)
\* recursive_process_directory has ended, by a return or by an exception
WalkEnded == wRet # "none"

\* the files with the source extension in the directories the walk has come
\* to, as <<directory, file name>>
Discovered ==
    UNION { {<<WalkRoots[d], wTree[d][k]>> :
                k \in {h \in 1..Len(wTree[d]) : HasSrcExt(wTree[d][h])}} :
            d \in {e \in 1..Len(WalkRoots) : e <= wDir} }

\* the calls of the file converter on a discovered file
CallsOn(f) ==
    {k \in 1..Len(wCalls) : wCalls[k].src = [dir |-> f[1], name |-> f[2]]}

\* C5: every discovered file is handed to the file converter exactly once even
\* when earlier files failed, and recursive_process_directory returns True if
\* and only if at least one file was discovered and every one converted; zero
\* discovered files returns False.
C5_BatchResult ==
    WalkEnded =>
        /\ \A f \in Discovered : Cardinality(CallsOn(f)) = 1
        /\ (wRet = "True") <=>
               /\ Discovered # {}
               /\ \A f \in Discovered : \A k \in CallsOn(f) : wCalls[k].ret
        /\ Discovered = {} => wRet = "False"

\* what C5 says, for the runs in which no exception leaves the function
WalkResultWhenReturned ==
    (WalkEnded /\ wRet # "raised") =>
        /\ \A f \in Discovered : Cardinality(CallsOn(f)) = 1
        /\ (wRet = "True") <=>
               /\ Discovered # {}
               /\ \A f \in Discovered : \A k \in CallsOn(f) : wCalls[k].ret
        /\ Discovered = {} => wRet = "False"

\* the run is one of the script on a single file
SingleFileRun == wMode \in {"argv1", "argv2"} /\ wInKind = "file"

\* every file the run was to convert has been converted successfully
AllConverted ==
    /\ wCalls # <<>>
    /\ \A k \in 1..Len(wCalls) : wCalls[k].ret
    /\ ~SingleFileRun =>
           /\ wRet # "raised"
           /\ Discovered # {}
           /\ \A f \in Discovered : CallsOn(f) # {}

\* C6: with zero, one or two arguments the process exits with 0 only when every
\* discovered file converted successfully, and with 1 when any file failed, no
\* file was found or the input path is invalid.
C6_ExitCode ==
    (wPc = "exited" /\ wMode \in {"argv0", "argv1", "argv2"}) =>
        /\ exitCode = 0 => AllConverted
        /\ ~AllConverted => exitCode = 1

\* C7: a failure to read a source file, to write a destination file or to
\* create a destination subdirectory fails that file only: no exception ends
\* the walk, every discovered file is handed to the converter, and the files
\* counted as failed are those whose conversion failed.
C7_NoFatalError ==
    (WalkEnded /\ wInKind # "missing" /\ wDir >= 1) =>
        /\ wRet # "raised"
        /\ \A f \in Discovered : CallsOn(f) # {}
        /\ total_files - success_count =
               Cardinality({k \in 1..Len(wCalls) : ~wCalls[k].ret})

\* the path of a source directory below the input directory
RelOf(dir) == SubSeq(dir, Len(InputDir) + 1, Len(dir))

\* a file name with its last four characters, the extension, taken off
WithoutExt(name) == SubSeq(name, 1, Len(name) - 4)

\* C9 as stated: inputRoot/<rel>/<name>.<ext> is written to
\* outputRoot/<rel>/<name>.<target ext> with keep_structure and to
\* outputRoot/<name>.<target ext> without, and the destination subdirectory
\* exists when the converter is invoked.
C9_OutputPathAsStated ==
    ~SingleFileRun =>
        \A k \in 1..Len(wCalls) :
            LET c == wCalls[k] IN
            /\ c.dst.dir = IF wKeep THEN OutputDir \o RelOf(c.src.dir) ELSE OutputDir
            /\ c.dst.name = WithoutExt(c.src.name) \o DstExt(wConv)
            /\ c.dstDir # "absent"

\* C9: as stated, except that the name is split as os.path.splitext splits it:
\* a file name that is only dots and the extension (".lrc") has no extension to
\* replace and gets the target extension appended (".lrc.srt"); and what exists
\* at the destination subdirectory's path is a directory unless a file stood
\* there before the run, in which case the conversion fails.
C9_OutputPath ==
    ~SingleFileRun =>
        \A k \in 1..Len(wCalls) :
            LET c == wCalls[k]
                onlyDots == \A h \in 1..(Len(c.src.name) - 4) : c.src.name[h] = "."
            IN
            /\ c.dst.dir = IF wKeep THEN OutputDir \o RelOf(c.src.dir) ELSE OutputDir
            /\ c.dst.name = IF onlyDots THEN c.src.name \o DstExt(wConv)
                            ELSE WithoutExt(c.src.name) \o DstExt(wConv)
            /\ c.dstDir \in {"dir", "file"}
            /\ c.dstDir = "file" => (~c.ret /\ PathState(c.dst.dir) = "file")
            /\ c.dstDir = "dir" => PathState(c.dst.dir) = "dir"

\* in/sub/a.b.LRC went to dst/sub/a.b.srt, and a file of the input directory
\* itself went to dst
C9_Witness ==
    /\ wKeep /\ wConv = "lrc2srt" /\ wMode = "argv2" /\ wPc = "exited"
    /\ \E k \in 1..Len(wCalls) :
           /\ wCalls[k].src = [dir |-> <<"in", "sub">>,
                               name |-> <<"a",".","b",".","L","R","C">>]
           /\ wCalls[k].dst = [dir |-> <<"dst", "sub">>,
                               name |-> <<"a",".","b",".","s","r","t">>]
           /\ wCalls[k].dstDir = "dir"
    /\ \E k \in 1..Len(wCalls) :
           /\ wCalls[k].src = [dir |-> <<"in">>, name |-> <<"a",".","l","r","c">>]
           /\ wCalls[k].dst = [dir |-> <<"dst">>, name |-> <<"a",".","s","r","t">>]


(***************************************************************************)
(* lrc_processor.py: the cleanup pass over one .lrc file.                  *)
(*                                                                         *)
(* A character outside ASCII is written as the one-character string        *)
(* "U+hhhh" of its code point.                                             *)
(***************************************************************************)
\* REPLACEMENTS in the dict's iteration order (its insertion order)
REPLACEMENTS ==
    << [old_text |-> <<"U+6D88", "U+6740">>, new_text |-> <<"U+6D88", "U+7802">>],
       [old_text |-> <<"U+6842", "U+5C71">>, new_text |-> <<"U+7678", "U+5C71">>],
       [old_text |-> <<"U+6C99">>,           new_text |-> <<"U+7802">>],
       [old_text |-> <<"U+4E0D", "U+85CF">>, new_text |-> <<"U+4E0D", "U+846C">>],
       [old_text |-> <<"U+5BFB", "U+519C">>, new_text |-> <<"U+5BFB", "U+9F99">>],
       [old_text |-> <<"U+5916", "U+5370">>, new_text |-> <<"U+5916", "U+5E94">>],
       [old_text |-> <<"U+65E5", "U+79D1">>, new_text |-> <<"U+65E5", "U+8BFE">>] >>

\* f.readlines(): the lines with their terminators
RECURSIVE ReadLines(_)
ReadLines(s) ==
    IF s = <<>> THEN <<>>
    ELSE IF ~Contains(s, "\n") THEN <<s>>
    ELSE LET i == CHOOSE j \in 1..Len(s) :
                      s[j] = "\n" /\ \A h \in 1..(j - 1) : s[h] # "\n"
         IN  <<SubSeq(s, 1, i)>> \o ReadLines(SubSeq(s, i + 1, Len(s)))

\* length of group(1) of ^(\[\d{2}:\d{2}(.\d{2})?\])(.*)$ on a stripped line,
\* 0 when the line does not match; the optional group is tried first
TimestampLen(line) ==
    LET d(i) == i <= Len(line) /\ IsDigit(line[i])
        base == /\ Len(line) >= 7
                /\ line[1] = "[" /\ d(2) /\ d(3) /\ line[4] = ":" /\ d(5) /\ d(6)
        long == /\ base /\ Len(line) >= 10
                /\ line[7] # "\n" /\ d(8) /\ d(9) /\ line[10] = "]"
        short == base /\ line[7] = "]"
    IN  IF ~Contains(line, "\n") /\ long THEN 10
        ELSE IF ~Contains(line, "\n") /\ short THEN 7
        ELSE 0

\* timestamp_match.group(1), with a variant that loses the fraction
Timestamp_short(line, n) == SubSeq(line, 1, 6) \o <<"]">>

Timestamp(line, n) == SubSeq(line, 1, n)

\* timestamp_match.group(3).strip()
Lyrics(line, n) == Strip(SubSeq(line, n + 1, Len(line)))

\* old in s
HasSub(s, old) == IndexOf(s, old) # 0

\* s.count(old): occurrences that do not overlap, from the left
RECURSIVE CountOf(_, _)
CountOf(s, old) ==
    LET i == IndexOf(s, old) IN
    IF i = 0 THEN 0 ELSE 1 + CountOf(SubSeq(s, i + Len(old), Len(s)), old)

\* s.replace(old, new)
RECURSIVE ReplaceAll(_, _, _)
ReplaceAll(s, old, new) ==
    LET i == IndexOf(s, old) IN
    IF i = 0 THEN s
    ELSE SubSeq(s, 1, i - 1) \o new
             \o ReplaceAll(SubSeq(s, i + Len(old), Len(s)), old, new)

\* the loop over REPLACEMENTS.items() (lines 167-175) from entry k on
RECURSIVE ApplyReplacements(_, _)
ApplyReplacements(k, st) ==
    IF k > Len(REPLACEMENTS) THEN st
    ELSE LET old_text == REPLACEMENTS[k].old_text
             new_text == REPLACEMENTS[k].new_text
         IN  IF HasSub(st.lyrics, old_text)
             THEN ApplyReplacements(k + 1,
                      [lyrics |-> ReplaceAll(st.lyrics, old_text, new_text),
                       replacement_counts |->
                           [st.replacement_counts EXCEPT
                                ![k] = @ + CountOf(st.lyrics, old_text)],
                       modified |-> TRUE])
             ELSE ApplyReplacements(k + 1, st)

\* a variant of the loop body that drops an empty line without flagging it
CleanLine_unflagged(line, acc) ==
    LET original_line == Strip(line)
        n == TimestampLen(original_line)
    IN  IF original_line = <<>> THEN acc
        ELSE IF n > 0
        THEN LET r == ApplyReplacements(1,
                          [lyrics |-> Lyrics(original_line, n),
                           replacement_counts |-> acc.replacement_counts,
                           modified |-> acc.modified])
             IN  IF r.lyrics = <<>>
                 THEN [acc EXCEPT !.replacement_counts = r.replacement_counts,
                                  !.empty_line_count = @ + 1,
                                  !.modified = r.modified]
                 ELSE [acc EXCEPT !.replacement_counts = r.replacement_counts,
                                  !.modified = r.modified,
                                  !.processed_lines =
                                      Append(@, Timestamp(original_line, n)
                                                    \o r.lyrics \o <<"\n">>)]
        ELSE [acc EXCEPT !.processed_lines = Append(@, original_line \o <<"\n">>)]

\* one turn of the loop over lines (lines 152-188)
CleanLine(line, acc) ==
    LET original_line == Strip(line)
        n == TimestampLen(original_line)
    IN  IF original_line = <<>> THEN acc
        ELSE IF n > 0
        THEN LET r == ApplyReplacements(1,
                          [lyrics |-> Lyrics(original_line, n),
                           replacement_counts |-> acc.replacement_counts,
                           modified |-> acc.modified])
             IN  IF r.lyrics = <<>>
                 THEN [acc EXCEPT !.replacement_counts = r.replacement_counts,
                                  !.empty_line_count = @ + 1,
                                  !.modified = TRUE]
                 ELSE [acc EXCEPT !.replacement_counts = r.replacement_counts,
                                  !.modified = r.modified,
                                  !.processed_lines =
                                      Append(@, Timestamp(original_line, n)
                                                    \o r.lyrics \o <<"\n">>)]
        ELSE [acc EXCEPT !.processed_lines = Append(@, original_line \o <<"\n">>)]

RECURSIVE CleanLines(_, _, _)
CleanLines(lines, i, acc) ==
    IF i > Len(lines) THEN acc
    ELSE CleanLines(lines, i + 1, CleanLine(lines[i], acc))

\* the counters the caller passes in: an empty dict, [0]
NoCounts == [k \in 1..Len(REPLACEMENTS) |-> 0]

\* process_lrc_file(file_path, replacement_counts, empty_line_count); content
\* is the file's text, rd and wr say whether open(..., 'r') and open(..., 'w')
\* succeed; .text is the file's text afterwards
process_lrc_file(content, rd, wr) ==
    IF rd # "ok"
    THEN [ret |-> FALSE, wrote |-> FALSE, text |-> content,
          replacement_counts |-> NoCounts, empty_line_count |-> 0]
    ELSE
        LET acc == CleanLines(ReadLines(content), 1,
                       [processed_lines |-> <<>>, modified |-> FALSE,
                        replacement_counts |-> NoCounts, empty_line_count |-> 0])
        IN  IF acc.modified /\ wr = "ok"
            THEN [ret |-> TRUE, wrote |-> TRUE,
                  text |-> Join(acc.processed_lines, <<>>),
                  replacement_counts |-> acc.replacement_counts,
                  empty_line_count |-> acc.empty_line_count]
            ELSE [ret |-> FALSE, wrote |-> FALSE, text |-> content,
                  replacement_counts |-> acc.replacement_counts,
                  empty_line_count |-> acc.empty_line_count]

(***************************************************************************)
(* The cleanup scenario: process_lrc_file runs once on one file.           *)
(***************************************************************************)
MaxCleanLines == 3

CleanSampleLines ==
    { <<"[","0","0",":","0","2",".","5","0","]","U+6D88","U+6740","U+6C99","U+6C99">>,
      <<"[","0","0",":","0","3",".","0","0","]","o","k">>,
      <<"[","0","0",":","0","4",".","0","0","]">>,
      <<"[","0","0",":","0","5","]"," "," ">>,
      <<" ","[","0","0",":","0","7","]"," ","U+6842","U+5C71"," ">>,
      <<"[","0","0",":","0","6","]"," ","1","2","]">>,
      <<"[","0","0",":","0","8",".","1","2","3","]","U+6C99">>,
      <<"[","t","i",":","U+6C99","]">>,
      <<" ","[","a","r",":","x","]","\t">>,
      <<" "," ">>,
      <<>> }

CleanContents ==
    UNION { {Join(ls, <<"\n">>), Join(ls, <<"\n">>) \o <<"\n">>} :
                ls \in StringsOver(CleanSampleLines, 0, MaxCleanLines) }

InitClean ==
    /\ cSrc \in CleanContents
    /\ cIo = <<"none", "none">>
    /\ cRes = CleanNotRun
    /\ cPc = "start"
    /\ TimeIdle
    /\ FileIdle
    /\ WalkIdle
    /\ FontIdle

ProcessLrcFile ==
    /\ cPc = "start"
    /\ \E rd \in {"ok", "error"}, wr \in {"ok", "error"} :
           /\ cIo' = <<rd, wr>>
           /\ cRes' = process_lrc_file(cSrc, rd, wr)
    /\ cPc' = "done"
    /\ UNCHANGED <<cSrc, timeVars, fileVars, walkVars, fontVars>>

NextClean == ProcessLrcFile

SpecClean == InitClean /\ [][NextClean]_vars

(***************************************************************************)
(* Claims about the cleanup pass.                                          *)
(***************************************************************************)
\* the lines of a text, without their terminators
LinesOf(text) ==
    LET ls == ReadLines(text) IN
    [i \in 1..Len(ls) |->
        IF ls[i][Len(ls[i])] = "\n" THEN SubSeq(ls[i], 1, Len(ls[i]) - 1) ELSE ls[i]]

IsBlank(line) == Strip(line) = <<>>

\* the text of a timestamped line after all replacements
TextAfterReplacement(line) ==
    LET sl == Strip(line) IN
    ApplyReplacements(1, [lyrics |-> Strip(SubSeq(sl, TimestampLen(sl) + 1, Len(sl))),
                          replacement_counts |-> NoCounts,
                          modified |-> FALSE]).lyrics

IsTimestamped(line) == TimestampLen(Strip(line)) > 0

\* the lines of a text that the pass is to keep: the headers and the
\* timestamped lines whose text is not empty after replacement
RECURSIVE KeptFrom(_, _)
KeptFrom(lines, i) ==
    IF i > Len(lines) THEN <<>>
    ELSE IF IsBlank(lines[i]) THEN KeptFrom(lines, i + 1)
    ELSE IF IsTimestamped(lines[i])
    THEN IF TextAfterReplacement(lines[i]) = <<>> THEN KeptFrom(lines, i + 1)
         ELSE <<[kind |-> "timestamped", line |-> lines[i]]>> \o KeptFrom(lines, i + 1)
    ELSE <<[kind |-> "header", line |-> lines[i]]>> \o KeptFrom(lines, i + 1)

KeptLines(text) == KeptFrom(LinesOf(text), 1)

TimestampToken(line) == SubSeq(Strip(line), 1, TimestampLen(Strip(line)))

HasPrefix(s, pre) == Len(s) >= Len(pre) /\ SubSeq(s, 1, Len(pre)) = pre

CleanDone == cPc = "done" /\ cIo[1] = "ok"

\* C11: after process_lrc_file has run on a file that it could read and
\* write, no line of the file on disk is blank (empty or whitespace only).
C11_NoBlankLines ==
    (cPc = "done" /\ cIo = <<"ok", "ok">>) =>
        LET out == LinesOf(cRes.text) IN
        \A i \in 1..Len(out) : ~IsBlank(out[i])

\* C12 as stated: the lines of the file afterwards are, in order, the kept
\* lines of the input: a timestamped line begins with the input line's
\* timestamp token, and a header is the input line unchanged.
C12_FrameAsStated ==
    CleanDone =>
        LET out == LinesOf(cRes.text)
            kept == KeptLines(cSrc)
        IN  IF cRes.wrote
            THEN /\ Len(out) = Len(kept)
                 /\ \A k \in 1..Len(kept) :
                        IF kept[k].kind = "timestamped"
                        THEN HasPrefix(out[k], TimestampToken(kept[k].line))
                        ELSE out[k] = kept[k].line
            ELSE cRes.text = cSrc

\* C12: replacements touch only the text after the timestamp: in a rewritten
\* file the lines are, in order, the kept lines of the input; a timestamped
\* line begins with the input line's timestamp token, and a header is the
\* input line with its leading and trailing whitespace removed and is
\* otherwise unchanged; a file that is not rewritten is unchanged.
C12_Frame ==
    CleanDone =>
        LET out == LinesOf(cRes.text)
            kept == KeptLines(cSrc)
        IN  IF cRes.wrote
            THEN /\ Len(out) = Len(kept)
                 /\ \A k \in 1..Len(kept) :
                        IF kept[k].kind = "timestamped"
                        THEN HasPrefix(out[k], TimestampToken(kept[k].line))
                        ELSE out[k] = Strip(kept[k].line)
            ELSE cRes.text = cSrc

\* " [ar:x]<tab>", "[00:02.50]" with three keys and "[ti:...]" holding a key:
\* the file is rewritten, the headers keep their text, the timestamp stays
C12_Witness ==
    /\ cPc = "done" /\ cRes.wrote
    /\ cSrc = <<" ","[","a","r",":","x","]","\t","\n",
                "[","0","0",":","0","2",".","5","0","]",
                    "U+6D88","U+6740","U+6C99","U+6C99","\n",
                "[","t","i",":","U+6C99","]">>
    /\ cRes.text = <<"[","a","r",":","x","]","\n",
                     "[","0","0",":","0","2",".","5","0","]",
                         "U+6D88","U+7802","U+7802","U+7802","\n",
                     "[","t","i",":","U+6C99","]","\n">>

\* some timestamped line's text holds a replacement key
KeyOccurs(text) ==
    LET lines == LinesOf(text) IN
    \E i \in 1..Len(lines) :
        LET sl == Strip(lines[i]) IN
        /\ TimestampLen(sl) > 0
        /\ \E k \in 1..Len(REPLACEMENTS) :
               HasSub(SubSeq(sl, TimestampLen(sl) + 1, Len(sl)),
                      REPLACEMENTS[k].old_text)

\* some timestamped line's text is empty after replacement
EmptyTextOccurs(text) ==
    LET lines == LinesOf(text) IN
    \E i \in 1..Len(lines) :
        /\ IsTimestamped(lines[i])
        /\ TextAfterReplacement(lines[i]) = <<>>

\* what the claim says of a run: rewritten and True exactly when a change
\* occurred, no line with empty text in the rewritten file, and otherwise the
\* file as it was and False
RewriteCondition ==
    /\ (cRes.ret /\ cRes.wrote) <=> (KeyOccurs(cSrc) \/ EmptyTextOccurs(cSrc))
    /\ cRes.ret <=> cRes.wrote
    /\ cRes.wrote => Len(LinesOf(cRes.text)) = Len(KeptLines(cSrc))
    /\ ~cRes.wrote => cRes.text = cSrc

\* C13 as stated: every run of process_lrc_file meets the rewrite condition.
C13_RewriteAsStated == cPc = "done" => RewriteCondition

\* C13: when the file can be read and written the run meets the rewrite
\* condition; when reading or writing fails the function returns False.
C13_Rewrite ==
    cPc = "done" =>
        IF cIo = <<"ok", "ok">> THEN RewriteCondition ELSE ~cRes.ret

\* a file with no key whose only change is a timestamped line without text:
\* rewritten without that line, True
C13_Witness ==
    /\ cPc = "done" /\ cIo = <<"ok", "ok">>
    /\ cSrc = <<"[","0","0",":","0","3",".","0","0","]","o","k","\n",
                "[","0","0",":","0","4",".","0","0","]","\n">>
    /\ cRes.ret /\ cRes.wrote
    /\ cRes.text = <<"[","0","0",":","0","3",".","0","0","]","o","k","\n">>
    /\ cRes.empty_line_count = 1

(***************************************************************************)
(* Claims about the blocks of an SRT file and the time-codes written.      *)
(***************************************************************************)
\* the blocks of the source, each as its list of lines
SrtBlocks ==
    LET bs == SplitOn(Strip(fSrc), <<"\n", "\n">>) IN
    [i \in 1..Len(bs) |-> SplitLines(Strip(bs[i]))]

\* the start time-code of a block of at least 3 lines: the second line up to
\* the arrow, without surrounding whitespace
BlockStart(b) == Strip(SplitOn(b[2], Arrow)[1])

BlockSkipped(b) == Len(b) < 3 \/ ~convert_srt_time_to_lrc(BlockStart(b)).ok

\* the output lines the blocks from the i-th on are to yield; the text lines
\* are joined as they are, or each without its surrounding whitespace
RECURSIVE ExpectedLrcLines(_, _, _)
ExpectedLrcLines(bs, i, stripped) ==
    IF i > Len(bs) THEN <<>>
    ELSE IF BlockSkipped(bs[i]) THEN ExpectedLrcLines(bs, i + 1, stripped)
    ELSE LET b == bs[i]
             texts == [k \in 1..(Len(b) - 2) |->
                          IF stripped THEN Strip(b[k + 2]) ELSE b[k + 2]]
         IN  << <<"[">> \o convert_srt_time_to_lrc(BlockStart(b)).val \o <<"]">>
                    \o Join(texts, <<" ">>) >>
                 \o ExpectedLrcLines(bs, i + 1, stripped)

SrtConverted == fPc = "done" /\ fDir = "srt2lrc" /\ fIo = <<"ok", "ok">>

\* C14 as stated: skipped blocks do not fail the file, and the file written
\* holds, in block order, one line [compactTime]text per other block, text
\* being the block's lines from the third on joined by single spaces.
C14_BlocksAsStated ==
    SrtConverted =>
        /\ fRes.ret /\ fRes.wrote
        /\ fRes.text = Join(ExpectedLrcLines(SrtBlocks, 1, FALSE), <<"\n">>)

\* C14: a block of fewer than 3 lines or with an unparsable start time-code is
\* skipped without failing the file, and the file written holds, in block
\* order, one line [compactTime]text per other block, text being the block's
\* lines from the third on, each without its leading and trailing whitespace,
\* joined by single spaces.
C14_Blocks ==
    SrtConverted =>
        /\ fRes.ret /\ fRes.wrote
        /\ LET expected == ExpectedLrcLines(SrtBlocks, 1, TRUE) IN
           /\ fRes.text = Join(expected, <<"\n">>)
           /\ fRes.count = Len(expected)

\* a block with the text lines "u " and " v" followed by a block whose start
\* time-code is "bad": one line, "[62:03.45]u v", and the file converts
C14_Witness ==
    /\ SrtConverted
    /\ Len(SrtBlocks) = 2
    /\ ~BlockSkipped(SrtBlocks[1]) /\ Len(SrtBlocks[1]) = 4
    /\ BlockSkipped(SrtBlocks[2]) /\ Len(SrtBlocks[2]) = 3
    /\ fRes.ret
    /\ fRes.text = <<"[","6","2",":","0","3",".","4","5","]","u"," ","v">>

\* C15: for a valid expanded time-code the string convert_srt_time_to_lrc
\* returns has a minutes field of 1 to 3 digits and seconds and centiseconds
\* of 2 digits, and "[" string "]text" is matched by the line parser of
\* lrc_to_srt.
C15_CompactGrammar ==
    (tcPc = "compact" /\ IsExpandedTimeCode(tcIn)) =>
        /\ tcOut.ok
        /\ LrcTimeMatches(tcOut.val)
        /\ Len(tcOut.val) = LeadDigits(tcOut.val) + 6
        /\ LrcLineMatches(<<"[">> \o tcOut.val \o <<"]", "x">>)

(***************************************************************************)
(* FontsSeparate/FontWeightExtractor.py                                    *)
(***************************************************************************)
\* WEIGHT_NAMES
WeightValues == {100, 200, 300, 400, 500, 600, 700, 800, 900}

WEIGHT_NAMES(weight) ==
    CASE weight = 100 -> <<"T","h","i","n">>
         [] weight = 200 -> <<"E","x","t","r","a","L","i","g","h","t">>
         [] weight = 300 -> <<"L","i","g","h","t">>
         [] weight = 400 -> <<"R","e","g","u","l","a","r">>
         [] weight = 500 -> <<"M","e","d","i","u","m">>
         [] weight = 600 -> <<"S","e","m","i","B","o","l","d">>
         [] weight = 700 -> <<"B","o","l","d">>
         [] weight = 800 -> <<"E","x","t","r","a","B","o","l","d">>
         [] weight = 900 -> <<"B","l","a","c","k">>

\* WEIGHT_PATTERNS in the dict's iteration order; each pattern is the list of
\* its alternatives
WEIGHT_PATTERNS ==
    << [terms |-> << <<"t","h","i","n">> >>,
        weight |-> 100],
       [terms |-> << <<"e","x","t","r","a","l","i","g","h","t">>,
                     <<"e","x","t","r","a"," ","l","i","g","h","t">>,
                     <<"e","x","t","r","a","-","l","i","g","h","t">>,
                     <<"u","l","t","r","a","l","i","g","h","t">>,
                     <<"u","l","t","r","a"," ","l","i","g","h","t">>,
                     <<"u","l","t","r","a","-","l","i","g","h","t">> >>,
        weight |-> 200],
       [terms |-> << <<"l","i","g","h","t">> >>,
        weight |-> 300],
       [terms |-> << <<"r","e","g","u","l","a","r">>,
                     <<"n","o","r","m","a","l">>,
                     <<"b","o","o","k">>,
                     <<"r","o","m","a","n">>,
                     <<"t","e","x","t">> >>,
        weight |-> 400],
       [terms |-> << <<"m","e","d","i","u","m">> >>,
        weight |-> 500],
       [terms |-> << <<"s","e","m","i","b","o","l","d">>,
                     <<"s","e","m","i"," ","b","o","l","d">>,
                     <<"s","e","m","i","-","b","o","l","d">>,
                     <<"d","e","m","i","b","o","l","d">>,
                     <<"d","e","m","i"," ","b","o","l","d">>,
                     <<"d","e","m","i","-","b","o","l","d">> >>,
        weight |-> 600],
       [terms |-> << <<"b","o","l","d">> >>,
        weight |-> 700],
       [terms |-> << <<"e","x","t","r","a","b","o","l","d">>,
                     <<"e","x","t","r","a"," ","b","o","l","d">>,
                     <<"e","x","t","r","a","-","b","o","l","d">>,
                     <<"u","l","t","r","a","b","o","l","d">>,
                     <<"u","l","t","r","a"," ","b","o","l","d">>,
                     <<"u","l","t","r","a","-","b","o","l","d">> >>,
        weight |-> 800],
       [terms |-> << <<"b","l","a","c","k">>,
                     <<"h","e","a","v","y">> >>,
        weight |-> 900] >>

\* \w for the characters the model uses
IsWordChar(c) ==
    \/ IsDigit(c)
    \/ c = "_"
    \/ \E k \in 1..26 : UpperCase[k] = c \/ LowerCase[k] = c

\* \b between s[p] and s[p+1] (p = 0: before the string, p = Len(s): after it)
WordBoundary(s, p) ==
    LET before == p >= 1 /\ IsWordChar(s[p])
        after  == p < Len(s) /\ IsWordChar(s[p + 1])
    IN  before # after

\* t stands at position i of s between two \b
WordAt(s, t, i) ==
    /\ i + Len(t) - 1 <= Len(s)
    /\ SubSeq(s, i, i + Len(t) - 1) = t
    /\ WordBoundary(s, i - 1)
    /\ WordBoundary(s, i + Len(t) - 1)

\* re.search(r'\b(' + t + r')\b', s) finds something
SearchWord(s, t) == \E i \in 1..Len(s) : WordAt(s, t, i)

\* re.search(r'\b(a|b|...)\b', s) for a pattern's alternatives
SearchPattern(s, terms) == \E a \in 1..Len(terms) : SearchWord(s, terms[a])

\* None, for a weight
NoWeight == 0

\* re.search(r'\b(\d{3})\b', name): the leftmost three digits standing alone,
\* as a number; NoWeight when there are none
ThreeDigits(name) ==
    LET hits == {i \in 1..(Len(name) - 2) :
                    /\ IsDigit(name[i]) /\ IsDigit(name[i + 1]) /\ IsDigit(name[i + 2])
                    /\ WordBoundary(name, i - 1) /\ WordBoundary(name, i + 2)}
    IN  IF hits = {} THEN NoWeight
        ELSE LET i == CHOOSE h \in hits : \A j \in hits : h <= j
             IN  ToInt(SubSeq(name, i, i + 2))

\* the loop over WEIGHT_PATTERNS.items() (lines 64-66) from entry k on
RECURSIVE FirstPattern(_, _)
FirstPattern(name_lower, k) ==
    IF k > Len(WEIGHT_PATTERNS) THEN NoWeight
    ELSE IF SearchPattern(name_lower, WEIGHT_PATTERNS[k].terms)
    THEN WEIGHT_PATTERNS[k].weight
    ELSE FirstPattern(name_lower, k + 1)

\* extract_weight_from_name(name)
extract_weight_from_name(name) ==
    LET name_lower == Lower(name)
        byName == FirstPattern(name_lower, 1)
        weight == ThreeDigits(name)
    IN  IF byName # NoWeight THEN byName
        ELSE IF weight \in WeightValues THEN weight
        ELSE IF SearchWord(name_lower, <<"l","t">>) THEN 300
        ELSE IF SearchWord(name_lower, <<"m","d">>) THEN 500
        ELSE IF SearchWord(name_lower, <<"b","d">>) THEN 700
        ELSE IF SearchWord(name_lower, <<"e","b">>) THEN 800
        ELSE IF SearchWord(name_lower, <<"b","l">>) THEN 900
        ELSE NoWeight

\* WEIGHT_NAMES.get(weight, str(weight))
WeightName(weight) ==
    IF weight \in WeightValues THEN WEIGHT_NAMES(weight) ELSE NatStr(weight)

\* the instance name of an instance without a subfamilyNameID (line 295)
Unnamed == <<"U+672A", "U+547D", "U+540D", "U+5B9E", "U+4F8B">>

\* instance_name.replace(" ", "")
RemoveSpaces(name) == SelectSeq(name, LAMBDA c : c # " ")

\* Path(font_path).stem
FontName == <<"V","F">>

\* f"{font_name}_{file_suffix}.ttf" under output_base
OutputPath(font_name, file_suffix) ==
    font_name \o <<"_">> \o file_suffix \o <<".", "t", "t", "f">>

(***************************************************************************)
(* The font scenario: either extract_weight_from_name is applied to one    *)
(* name, or extract_font_weights runs on one font.  An instance is the     *)
(* name getDebugName gave for it (Unnamed without a subfamilyNameID, None  *)
(* when the name table has no such record) and whether it has a wght       *)
(* coordinate.                                                             *)
(***************************************************************************)
MaxInstances == 3

UpperChar(c) ==
    IF \E k \in 1..26 : LowerCase[k] = c
    THEN UpperCase[CHOOSE k \in 1..26 : LowerCase[k] = c]
    ELSE c

\* a term as font names spell it: Extra Bold, Semi-Bold
Capitalized(t) ==
    [k \in 1..Len(t) |->
        IF k = 1 \/ t[k - 1] \in {" ", "-"} THEN UpperChar(t[k]) ELSE t[k]]

WeightTerms ==
    UNION { {WEIGHT_PATTERNS[k].terms[a] : a \in 1..Len(WEIGHT_PATTERNS[k].terms)} :
                k \in 1..Len(WEIGHT_PATTERNS) }

FontNameInputs ==
    { pre \o t \o suf :
        pre \in {<<>>, <<"N","o","t","o"," ">>, <<"I","n","t","e","r","-">>},
        t \in WeightTerms \cup {Capitalized(w) : w \in WeightTerms},
        suf \in {<<>>, <<" ","I","t","a","l","i","c">>, <<"_","v","2">>} }
    \cup
    { <<>>, <<"F","o","o">>, <<"F","o","o"," ","7","0","0">>,
      <<"F","o","o"," ","2","5","0">>, <<"F","o","o"," ","1","7","0","0">>,
      <<"F","o","o"," ","4","5","0"," ","7","0","0">>,
      <<"F","o","o"," ","B","d">>, <<"F","o","o"," ","l","t">>,
      <<"F","o","o","-","M","D">>, <<"F","o","o"," ","e","b">>,
      <<"F","o","o"," ","B","L">>, <<"B","o","l","d","e","r">> }

XInstanceSamples ==
    { [name |-> <<"B","o","l","d">>, hasWght |-> TRUE],
      [name |-> <<"B","o","l","d","_","2">>, hasWght |-> TRUE],
      [name |-> <<"B"," ","o","l","d">>, hasWght |-> TRUE],
      [name |-> <<"L","i","g","h","t">>, hasWght |-> TRUE],
      [name |-> <<"L","i","g","h","t">>, hasWght |-> FALSE],
      [name |-> Unnamed, hasWght |-> TRUE],
      [name |-> None, hasWght |-> TRUE] }

InitFont ==
    /\ \/ /\ gMode = "name"
          /\ nName \in FontNameInputs
          /\ xInstances = <<>>
       \/ /\ gMode = "variable"
          /\ nName = <<>>
          /\ xInstances \in StringsOver(XInstanceSamples, 0, MaxInstances)
       \/ /\ gMode \in {"variable_nowght", "static"}
          /\ nName = <<>>
          /\ xInstances = <<>>
    /\ nWeight = NoWeight
    /\ xPos = 0
    /\ processed_weights = <<>>
    /\ xSaved = <<>>
    /\ gPc = "start"
    /\ TimeIdle
    /\ FileIdle
    /\ WalkIdle
    /\ CleanIdle

ExtractWeightFromName ==
    /\ gMode = "name" /\ gPc = "start"
    /\ nWeight' = extract_weight_from_name(nName)
    /\ gPc' = "done"
    /\ UNCHANGED <<gMode, nName, xInstances, xPos, processed_weights, xSaved,
                   timeVars, fileVars, walkVars, cleanVars>>

\* extract_font_weights up to the loop (lines 273-290), and the whole of its
\* branch for a static font (lines 328-340); mk is how output_base.mkdir went,
\* weight is what get_font_weight found
ExtractBegin ==
    /\ gMode \in {"variable", "variable_nowght", "static"} /\ gPc = "start"
    /\ \E mk \in {"ok", "raise"}, weight \in {NoWeight, 400, 950} :
           IF mk = "raise"
           THEN gPc' = "raised" /\ UNCHANGED <<xPos, xSaved>>
           ELSE IF gMode = "variable" /\ xInstances # <<>>
           THEN gPc' = "loop" /\ xPos' = 1 /\ UNCHANGED xSaved
           ELSE IF gMode = "static" /\ weight # NoWeight
           THEN /\ xSaved' = <<OutputPath(FontName, WeightName(weight))>>
                /\ gPc' = "done" /\ UNCHANGED xPos
           ELSE gPc' = "done" /\ UNCHANGED <<xPos, xSaved>>
    /\ UNCHANGED <<gMode, nName, nWeight, xInstances, processed_weights,
                   timeVars, fileVars, walkVars, cleanVars>>

\* one turn of the loop over fvar.instances (lines 293-326)
ExtractInstance ==
    /\ gPc = "loop"
    /\ LET instance == xInstances[xPos]
           instance_name == instance.name
           file_suffix == RemoveSpaces(instance_name)
           seen == file_suffix \in DOMAIN processed_weights
           count == IF seen THEN processed_weights[file_suffix] + 1 ELSE 1
           suffix == IF seen THEN file_suffix \o <<"_">> \o NatStr(count)
                     ELSE file_suffix
           last == xPos = Len(xInstances)
       IN  IF ~instance.hasWght \/ instance_name = Unnamed
           THEN /\ gPc' = IF last THEN "done" ELSE "loop"
                /\ xPos' = xPos + 1
                /\ UNCHANGED <<processed_weights, xSaved>>
           ELSE IF instance_name = None
           THEN gPc' = "raised" /\ UNCHANGED <<xPos, processed_weights, xSaved>>
           ELSE /\ processed_weights' =
                       [sfx \in (DOMAIN processed_weights) \cup {file_suffix} |->
                           IF sfx = file_suffix THEN count ELSE processed_weights[sfx]]
                /\ xSaved' = Append(xSaved, OutputPath(FontName, suffix))
                /\ gPc' = IF last THEN "done" ELSE "loop"
                /\ xPos' = xPos + 1
    /\ UNCHANGED <<gMode, nName, nWeight, xInstances,
                   timeVars, fileVars, walkVars, cleanVars>>

NextFont == ExtractWeightFromName \/ ExtractBegin \/ ExtractInstance

SpecFont == InitFont /\ [][NextFont]_vars

(***************************************************************************)
(* Claims about the font scenario.                                         *)
(***************************************************************************)
\* C16: no two instances of one variable font are saved to the same output
\* path.
C16_NoDuplicateNames ==
    gMode = "variable" =>
        \A i, j \in 1..Len(xSaved) : i # j => xSaved[i] # xSaved[j]

\* the terms of the table found in the name as a whole word or phrase
FoundTerms(name) == {t \in WeightTerms : SearchWord(Lower(name), t)}

\* those among them that are not part of a longer one found as well
\* ("bold" is part of "extra bold")
NamedTerms(name) ==
    {t \in FoundTerms(name) :
        ~\E u \in FoundTerms(name) : Len(u) > Len(t) /\ HasSub(u, t)}

\* the weight the table associates with a term
TableWeight(t) ==
    LET k == CHOOSE h \in 1..Len(WEIGHT_PATTERNS) :
                 \E a \in 1..Len(WEIGHT_PATTERNS[h].terms) :
                     WEIGHT_PATTERNS[h].terms[a] = t
    IN  WEIGHT_PATTERNS[k].weight

\* C17: for a font name that contains one weight term of WEIGHT_PATTERNS as a
\* whole word or phrase, extract_weight_from_name returns the weight the table
\* associates with that term.
C17_TableWeight ==
    (gMode = "name" /\ gPc = "done") =>
        \A t \in WeightTerms :
            NamedTerms(nName) = {t} => nWeight = TableWeight(t)

=============================================================================
